---- MODULE Spec2Model ----
(***************************************************************************)
(* The board engine of rocket-2048 (game2048/src/grid.rs): a 4x4 grid of   *)
(* u64 cells with a running score, driven by Grid::attempt, and the        *)
(* messages of its owner, Model::update (game2048/src/model.rs): key       *)
(* presses, touch gestures and the new-game request.                       *)
(*                                                                         *)
(* A grid is a 4-tuple of rows, a row a 4-tuple of values.  TLA+ tuples    *)
(* are indexed from 1, so the source's cells[i][j] (i the row, j the       *)
(* column, both 0..3) is cells[i + 1][j + 1] here, and the loops of the    *)
(* source that run over 0..3 run over 1..4.  Tile values stay far below    *)
(* 2^64 in every state explored, so the u64 arithmetic never wraps.        *)
(***************************************************************************)
EXTENDS Integers, Sequences, FiniteSets, TLC

VARIABLES
    cells,      \* Grid.cells
    score,      \* Grid.score
    status,     \* what the last call of attempt returned ("None" before any)
    history,    \* the directions passed to the calls made on this grid so far
    budget,     \* calls this grid may still receive
    touch_start_x,  \* Model.touch_start_x: Option<i32>
    touch_start_y,  \* Model.touch_start_y: Option<i32>
    msg         \* the keyboard or touch message update handled last

vars == <<cells, score, status, history, budget,
          touch_start_x, touch_start_y, msg>>

\* the fields of the grid, and what is recorded of the input
model_grid == <<cells, score, status, history, budget>>

input == <<touch_start_x, touch_start_y, msg>>

(* ---------------------------- bounds ----------------------------------- *)

\* calls explored on a grid made by Grid::new_random()
MaxMoves == 1

\* calls explored on a grid the unit tests make with Grid::new(cells)
MaxNewMoves == 2

\* the largest tile of the enumerated input boards is 2^MaxExp
MaxExp == 2

(* ---------------------------- the grid --------------------------------- *)

Idx == 1..4

Row(a, b, c, d) == <<a, b, c, d>>

Board(r1, r2, r3, r4) == <<r1, r2, r3, r4>>

ZeroRow == Row(0, 0, 0, 0)

EmptyCells == Board(ZeroRow, ZeroRow, ZeroRow, ZeroRow)

MOVES == <<"Left", "Right", "Up", "Down">>

Moves == {MOVES[k] : k \in 1..Len(MOVES)}

\* mutant: the turns of Up and Down exchanged
get_number_swapped(self) ==
    CASE self = "Right" -> 0
      [] self = "Up"    -> 3
      [] self = "Left"  -> 2
      [] self = "Down"  -> 1

get_number(self) ==
    CASE self = "Right" -> 0
      [] self = "Up"    -> 1
      [] self = "Left"  -> 2
      [] self = "Down"  -> 3

(* ---------------------------- rotation --------------------------------- *)

\* The swap loop of rotate: for i in 0..4, for j in i..4, cells[i][j] <->
\* cells[j][i].  Every unordered pair {i, j} is visited once (j >= i), so
\* the loop leaves in cell (i, j) the value that started in cell (j, i).
transpose(sq) ==
    Board(Row(sq[1][1], sq[2][1], sq[3][1], sq[4][1]),
          Row(sq[1][2], sq[2][2], sq[3][2], sq[4][2]),
          Row(sq[1][3], sq[2][3], sq[3][3], sq[4][3]),
          Row(sq[1][4], sq[2][4], sq[3][4], sq[4][4]))

\* cells[i].reverse()
reverse(row) == Row(row[4], row[3], row[2], row[1])

\* mutant: the rows reversed before the swap loop, a turn the other way
rotate_counter(turned) ==
    transpose(Board(reverse(turned[1]), reverse(turned[2]),
                    reverse(turned[3]), reverse(turned[4])))

rotate(turned) ==
    LET transposed == transpose(turned)
    IN  Board(reverse(transposed[1]), reverse(transposed[2]),
              reverse(transposed[3]), reverse(transposed[4]))

RECURSIVE rotate_times(_, _)
rotate_times(rotated_cells, n) ==
    IF n = 0 THEN rotated_cells
    ELSE rotate_times(rotate(rotated_cells), n - 1)

(* ---------------------------- reduction -------------------------------- *)

\* the while loop of mov_all_cells_to_the_side: the index the lifted value
\* lands on, the last one before a non-empty cell or the end of the row
RECURSIVE slide_index(_, _)
slide_index(row, index) ==
    IF index < 4
    THEN IF row[index + 1] # 0 THEN index ELSE slide_index(row, index + 1)
    ELSE index

\* one round of the inner for loop: lift row[j], put it down at slide_index
slide_cell(row, j) ==
    LET temp    == row[j]
        cleared == [row EXCEPT ![j] = 0]
    IN  [cleared EXCEPT ![slide_index(cleared, j)] = temp]

\* mutant: for j in 0..3, the scan started at the low end
slide_row_forward(row) == slide_cell(slide_cell(slide_cell(row, 1), 2), 3)

\* for j in (0..3).rev()
slide_row(row) == slide_cell(slide_cell(slide_cell(row, 3), 2), 1)

mov_all_cells_to_the_side(loose) ==
    Board(slide_row(loose[1]), slide_row(loose[2]),
          slide_row(loose[3]), slide_row(loose[4]))

\* mutant: the merge loop without new_row[j - 1] = 0
merge_step_keeps_low(old_row, st, j) ==
    IF st.row[j] = old_row[j - 1]
    THEN [row   |-> [st.row EXCEPT ![j] = 2 * st.row[j]],
          score |-> st.score + 2 * st.row[j]]
    ELSE st

\* mutant: the merge loop without new_row[j] *= 2
merge_step_drops_pair(old_row, st, j) ==
    IF st.row[j] = old_row[j - 1]
    THEN [row   |-> [st.row EXCEPT ![j - 1] = 0],
          score |-> st.score + 2 * st.row[j]]
    ELSE st

\* one round of the merge loop of mov, on st = (new_row, score_increase)
merge_step(old_row, st, j) ==
    IF st.row[j] = old_row[j - 1]
    THEN [row   |-> [st.row EXCEPT ![j] = 2 * st.row[j], ![j - 1] = 0],
          score |-> st.score + 2 * st.row[j]]
    ELSE st

\* mutant: for j in 1..=3, the scan started at the far end
merge_row_forward(old_row) ==
    merge_step(old_row,
        merge_step(old_row,
            merge_step(old_row, [row |-> old_row, score |-> 0], 2), 3), 4)

\* for j in (1..=3).rev()
merge_row(old_row) ==
    merge_step(old_row,
        merge_step(old_row,
            merge_step(old_row, [row |-> old_row, score |-> 0], 4), 3), 2)

\* mutant: the merge loop run a second time on the re-compacted rows
mov_cascading(side) ==
    LET slid  == mov_all_cells_to_the_side(side)
        m1    == merge_row(slid[1])
        m2    == merge_row(slid[2])
        m3    == merge_row(slid[3])
        m4    == merge_row(slid[4])
        again == mov_all_cells_to_the_side(Board(m1.row, m2.row, m3.row, m4.row))
        n1    == merge_row(again[1])
        n2    == merge_row(again[2])
        n3    == merge_row(again[3])
        n4    == merge_row(again[4])
    IN  [cells |-> mov_all_cells_to_the_side(Board(n1.row, n2.row, n3.row, n4.row)),
         score |-> m1.score + m2.score + m3.score + m4.score
                   + n1.score + n2.score + n3.score + n4.score]

mov(side) ==
    LET slid == mov_all_cells_to_the_side(side)
        m1   == merge_row(slid[1])
        m2   == merge_row(slid[2])
        m3   == merge_row(slid[3])
        m4   == merge_row(slid[4])
    IN  [cells |-> mov_all_cells_to_the_side(Board(m1.row, m2.row, m3.row, m4.row)),
         score |-> m1.score + m2.score + m3.score + m4.score]

handle_move(grid, rotation) ==
    LET rotated == rotate_times(grid, rotation)
        moved   == mov(rotated)
    IN  [cells |-> rotate_times(moved.cells, 4 - rotation),
         score |-> moved.score]

make_move(board, direction) == handle_move(board, get_number(direction))

(* ---------------------------- queries ---------------------------------- *)

\* mutant: a move counts as valid when it scores
move_is_valid_by_score(current, way) == make_move(current, way).score > 0

move_is_valid(current, way) == current # make_move(current, way).cells

\* mutant: any() in place of the outer all()
is_board_full_any_row(filled) == \E i \in Idx : \A j \in Idx : filled[i][j] # 0

is_board_full(filled) == \A i \in Idx : \A j \in Idx : filled[i][j] # 0

\* mutant: lost as soon as the board is full
has_player_lost_when_full(position) == is_board_full(position)

has_player_lost(position) ==
    ~ \E k \in 1..Len(MOVES) : move_is_valid(position, MOVES[k])

\* the (row, column) pairs in the order of the two nested loops
RowMajor == [k \in 1..16 |-> <<((k - 1) \div 4) + 1, ((k - 1) % 4) + 1>>]

get_empty_cells(scanned) ==
    SelectSeq(RowMajor, LAMBDA p : scanned[p[1]][p[2]] = 0)

(* ---------------------------- spawning --------------------------------- *)

\* mutant: the exponents stored instead of the values
SpawnValues_exponents == {1, 2}

\* the values the Bernoulli roll can produce
SpawnValues == {2, 4}

\* mutant: the new tile goes to any cell, empty or not
insert_random_cell_anywhere(target) ==
    IF is_board_full(target) THEN {target}
    ELSE {[target EXCEPT ![RowMajor[k][1]][RowMajor[k][2]] = val] :
              k \in 1..Len(RowMajor), val \in SpawnValues}

\* mutant: the first empty cell instead of a chosen one
insert_random_cell_first_empty(target) ==
    IF is_board_full(target) THEN {target}
    ELSE LET empty_cells == get_empty_cells(target)
         IN  {[target EXCEPT ![empty_cells[1][1]][empty_cells[1][2]] = val] :
                  val \in SpawnValues}

\* every grid insert_random_cell can leave behind
insert_random_cell(target) ==
    IF is_board_full(target) THEN {target}
    ELSE LET empty_cells == get_empty_cells(target)
         IN  {[target EXCEPT ![empty_cells[k][1]][empty_cells[k][2]] = val] :
                  k \in 1..Len(empty_cells), val \in SpawnValues}

\* insert_random_cell gets past its is_board_full return and choose() finds
\* nothing to choose from: the unwrap panics
insert_random_cell_panics(target) ==
    /\ ~ is_board_full(target)
    /\ Len(get_empty_cells(target)) = 0

\* mutant: insert_random_cell called once
new_random_once == insert_random_cell(EmptyCells)

new_random == UNION {insert_random_cell(g) : g \in insert_random_cell(EmptyCells)}

\* impl Default for Grid
default == new_random

(* ---------------------------- input boards ----------------------------- *)

\* 2^k
RECURSIVE Pow2(_)
Pow2(k) == IF k = 0 THEN 1 ELSE 2 * Pow2(k - 1)

\* an empty cell, or a tile up to 2^MaxExp
Vals == {0} \cup {Pow2(k) : k \in 1..MaxExp}

Rows == {Row(a, b, c, d) : a \in Vals, b \in Vals, c \in Vals, d \in Vals}

\* the rows around the enumerated one: all empty, or all full
Fillers == {ZeroRow, Row(2, 4, 2, 4)}

PutRow(f, i, r) ==
    Board(IF i = 1 THEN r ELSE f, IF i = 2 THEN r ELSE f,
          IF i = 3 THEN r ELSE f, IF i = 4 THEN r ELSE f)

\* the board whose columns are the rows of b
AsColumns(b) ==
    Board(Row(b[1][1], b[2][1], b[3][1], b[4][1]),
          Row(b[1][2], b[2][2], b[3][2], b[4][2]),
          Row(b[1][3], b[2][3], b[3][3], b[4][3]),
          Row(b[1][4], b[2][4], b[3][4], b[4][4]))

\* every row over Vals, at every height, between empty or full rows
RowBoards == {PutRow(f, i, r) : f \in Fillers, i \in Idx, r \in Rows}

\* the same with the enumerated line standing as a column
ColumnBoards == {AsColumns(b) : b \in RowBoards}

\* tests::player_has_lost_when_player_has_lost
Checkerboard ==
    Board(Row(2, 4, 2, 4), Row(4, 2, 4, 2), Row(2, 4, 2, 4), Row(4, 2, 4, 2))

\* the checkerboard with one cell replaced by an empty cell or any tile
NearStuckBoards ==
    {[Checkerboard EXCEPT ![i][j] = v] : i \in Idx, j \in Idx, v \in Vals}

\* tests::get_score_works
FourTwos == Board(Row(2, 2, 2, 2), ZeroRow, ZeroRow, ZeroRow)

\* boards of the unit tests of grid.rs
TestBoards ==
    { FourTwos,
      Checkerboard,
      \* score_increase_should_be_16_plus_8
      Board(Row(4, 4, 0, 0), Row(2, 4, 0, 0), ZeroRow, Row(0, 8, 8, 0)),
      \* bad_feeling_bout_this, has_player_lost_works_when_player_board_isnt_full
      Board(Row(2, 2, 2, 4), Row(2, 4, 4, 4), ZeroRow, ZeroRow),
      \* has_player_lost_works_when_player_board_is_full_but_a_move_is_possible
      Board(Row(2, 4, 2, 4), Row(4, 2, 4, 2), Row(2, 4, 2, 4), Row(4, 2, 4, 4)),
      \* nothing_moves_when_nothing_should_move
      Board(Row(2, 4, 8, 16), Row(2, 4, 8, 16), Row(2, 4, 8, 16), Row(2, 4, 8, 16)),
      \* random_cell_is_inserted_after_attempt
      Board(Row(0, 0, 2, 0), Row(0, 2, 0, 2), ZeroRow, Row(4, 4, 2, 2)),
      \* move_is_valid_works_when_invalid, move_is_valid_works_when_valid
      Board(Row(2, 4, 0, 0), Row(2, 0, 0, 0), ZeroRow, Row(4, 2, 0, 0)),
      \* board_is_full_works
      Board(Row(2, 2, 4, 2), Row(2, 2, 2, 2), Row(4, 2, 2, 2), Row(2, 2, 2, 2)),
      \* insert_random_cell_works
      Board(Row(2, 2, 4, 2), Row(2, 0, 2, 2), Row(4, 2, 2, 2), Row(2, 2, 2, 2)),
      \* sanity_check
      Board(Row(2, 2, 4, 4), ZeroRow, Row(2, 0, 0, 0), ZeroRow),
      \* get_empty_cells_work
      Board(Row(2, 2, 4, 2), Row(2, 0, 2, 2), Row(4, 2, 2, 0), Row(2, 2, 2, 2)) }

\* a full board late in a game: sixteen different tiles, so stuck
EndBoard ==
    Board(Row(64, 32768, 8, 4), Row(4096, 2, 1024, 128),
          Row(256, 8192, 32, 16), Row(2048, 65536, 512, 16384))

\* the same board one tile short: the last moves of a game
EndBoards == {[EndBoard EXCEPT ![i][j] = 0] : i \in Idx, j \in Idx}

\* the inputs of the reduction: Grid::make_move takes any [[u64; 4]; 4]
InputBoards == RowBoards \cup ColumnBoards \cup NearStuckBoards \cup TestBoards

\* the grids played on after Grid::new(cells): the boards of the unit tests
\* that have at most one empty cell, and the near-stuck boards
DenseBoards ==
    {b \in TestBoards \cup NearStuckBoards : Len(get_empty_cells(b)) <= 1}

(* ------------------------ Model: the input ----------------------------- *)

\* Option<i32>: None and Some(v)
None == <<>>

Some(v) == <<v>>

is_none(o) == o = None

unwrap(o) == o[1]

\* i32::abs; screen coordinates stay far from i32::MIN
abs(n) == IF n < 0 THEN -n ELSE n

TOUCH_MOVE_THRESHOLD == 30

\* mutant: ties go to the horizontal axis
get_move_ties_horizontal(dx, dy) ==
    IF abs(dx) >= abs(dy)
    THEN IF dx > 0 THEN "Right" ELSE "Left"
    ELSE IF dy > 0 THEN "Down" ELSE "Up"

\* fn get_move(dx: i32, dy: i32) -> Move
get_move(dx, dy) ==
    IF abs(dx) > abs(dy)
    THEN IF dx > 0 THEN "Right" ELSE "Left"
    ELSE IF dy > 0 THEN "Down" ELSE "Up"

\* let arrow = match key_code { 37 => .., 38 => .., 39 => .., 40 => .., _ => None }
arrow(key_code) ==
    CASE key_code = 37 -> Some("Left")
      [] key_code = 38 -> Some("Up")
      [] key_code = 39 -> Some("Right")
      [] key_code = 40 -> Some("Down")
      [] OTHER -> None

\* a Touch of a TouchList, and the message update handled: its kind, the key
\* code of a KeyboardEvent, the target_touches (TouchStart) or the
\* changed_touches (TouchEnd) of a TouchEvent
Touch(x, y) == [client_x |-> x, client_y |-> y]

Msg(kind, key_code, touches) ==
    [kind |-> kind, key_code |-> key_code, touches |-> touches]

NoMsg == Msg("None", 0, <<>>)

\* Model::create: no touch start recorded, no message handled yet
NoInput ==
    /\ touch_start_x = None
    /\ touch_start_y = None
    /\ msg = NoMsg

\* the key codes pressed: the four arrows, their neighbours, Enter
KeyCodes == {13, 36, 37, 38, 39, 40, 41}

\* the points a touch starts at and ends at: every pair of displacements out
\* of 0, 1, 29, 30, 31, 60, 61 in size occurs, with both signs
StartPoints == {Touch(30, 30), Touch(0, 61), Touch(61, 0)}

Coords == {0, 1, 30, 60, 61}

EndPoints == {Touch(x, y) : x \in Coords, y \in Coords}

\* the TouchLists of the events: empty, or one touch
TouchLists(points) == {<<>>} \cup {<<p>> : p \in points}

\* the grid of the Model when the input arrives: stuck, full with one move
\* left, one cell short of full
UpdateBoards ==
    { Checkerboard,
      [Checkerboard EXCEPT ![4][4] = 4],
      [Checkerboard EXCEPT ![1][1] = 0] }

(* ---------------------------- actions ---------------------------------- *)

\* Model::create late in a game: the grid dense, no touch start recorded
InitInput ==
    /\ cells \in UpdateBoards
    /\ score = 0
    /\ status = "None"
    /\ history = <<>>
    /\ budget = MaxMoves
    /\ NoInput

\* Grid::new_random()
Init ==
    /\ cells \in new_random
    /\ score = 0
    /\ status = "None"
    /\ history = <<>>
    /\ budget = MaxMoves
    /\ NoInput

\* Grid::new(cells) on a dense board
InitNew ==
    /\ cells \in DenseBoards
    /\ score = 0
    /\ status = "None"
    /\ history = <<>>
    /\ budget = MaxNewMoves
    /\ NoInput

\* Grid::new(cells) as in tests::get_score_works
InitScore ==
    /\ cells = FourTwos
    /\ score = 0
    /\ status = "None"
    /\ history = <<>>
    /\ budget = MaxNewMoves
    /\ NoInput

\* any board handed to the reduction, as the unit tests of mov, handle_move
\* and rotate do
InitMove ==
    /\ cells \in InputBoards
    /\ score = 0
    /\ status = "None"
    /\ history = <<>>
    /\ budget = MaxMoves
    /\ NoInput

\* Grid::new(cells) before a direct call of insert_random_cell, as in
\* tests::insert_random_cell_works, and the sixteen zeros of new_random
InitInsert ==
    /\ cells \in TestBoards \cup NearStuckBoards \cup {EmptyCells}
    /\ score = 0
    /\ status = "None"
    /\ history = <<>>
    /\ budget = MaxNewMoves
    /\ NoInput

\* the grid of a Model late in a game: full or one cell short of it
InitGame ==
    /\ cells \in DenseBoards
    /\ score = 0
    /\ status = "None"
    /\ history = <<>>
    /\ budget = MaxMoves
    /\ NoInput

\* a grid a few moves before the end of its game; the calls made on it from
\* here on are not recorded
InitEnd ==
    /\ cells \in EndBoards
    /\ score = 0
    /\ status = "None"
    /\ history = <<>>
    /\ budget = 0
    /\ NoInput

\* mutant: attempt without the move_is_valid guard
Attempt_unguarded(m) ==
    /\ budget > 0
    /\ budget' = budget - 1
    /\ history' = Append(history, m)
    /\ LET r == make_move(cells, m)
       IN  \E g \in insert_random_cell(r.cells) :
               /\ cells' = g
               /\ score' = score + r.score
               /\ status' = IF has_player_lost(g) THEN "Lost" ELSE "Ok"
    /\ UNCHANGED input

\* mutant: self.score = score_increase
Attempt_score_assigned(m) ==
    /\ budget > 0
    /\ budget' = budget - 1
    /\ history' = Append(history, m)
    /\ IF ~ move_is_valid(cells, m)
       THEN /\ status' = "InvalidMove"
            /\ UNCHANGED <<cells, score>>
       ELSE LET r == make_move(cells, m)
            IN  \E g \in insert_random_cell(r.cells) :
                    /\ cells' = g
                    /\ score' = r.score
                    /\ status' = IF has_player_lost(g) THEN "Lost" ELSE "Ok"
    /\ UNCHANGED input

\* mutant: has_player_lost asked before insert_random_cell
Attempt_lost_before_spawn(m) ==
    /\ budget > 0
    /\ budget' = budget - 1
    /\ history' = Append(history, m)
    /\ IF ~ move_is_valid(cells, m)
       THEN /\ status' = "InvalidMove"
            /\ UNCHANGED <<cells, score>>
       ELSE LET r == make_move(cells, m)
            IN  \E g \in insert_random_cell(r.cells) :
                    /\ cells' = g
                    /\ score' = score + r.score
                    /\ status' = IF has_player_lost(r.cells) THEN "Lost" ELSE "Ok"
    /\ UNCHANGED input

\* mutant: insert_random_cell called twice
Attempt_spawns_twice(m) ==
    /\ budget > 0
    /\ budget' = budget - 1
    /\ history' = Append(history, m)
    /\ IF ~ move_is_valid(cells, m)
       THEN /\ status' = "InvalidMove"
            /\ UNCHANGED <<cells, score>>
       ELSE LET r == make_move(cells, m)
            IN  \E g1 \in insert_random_cell(r.cells) :
                \E g \in insert_random_cell(g1) :
                    /\ cells' = g
                    /\ score' = score + r.score
                    /\ status' = IF has_player_lost(g) THEN "Lost" ELSE "Ok"
    /\ UNCHANGED input

\* mutant: a rejected call on a stuck grid answers Lost
Attempt_lost_again(m) ==
    /\ budget > 0
    /\ budget' = budget - 1
    /\ history' = Append(history, m)
    /\ IF ~ move_is_valid(cells, m)
       THEN /\ status' = IF has_player_lost(cells) THEN "Lost" ELSE "InvalidMove"
            /\ UNCHANGED <<cells, score>>
       ELSE LET r == make_move(cells, m)
            IN  \E g \in insert_random_cell(r.cells) :
                    /\ cells' = g
                    /\ score' = score + r.score
                    /\ status' = IF has_player_lost(g) THEN "Lost" ELSE "Ok"
    /\ UNCHANGED input

\* mutant: attempt without insert_random_cell
Attempt_without_spawn(m) ==
    /\ budget > 0
    /\ budget' = budget - 1
    /\ history' = Append(history, m)
    /\ IF ~ move_is_valid(cells, m)
       THEN /\ status' = "InvalidMove"
            /\ UNCHANGED <<cells, score>>
       ELSE LET r == make_move(cells, m)
            IN  /\ cells' = r.cells
                /\ score' = score + r.score
                /\ status' = IF has_player_lost(r.cells) THEN "Lost" ELSE "Ok"
    /\ UNCHANGED input

\* grid.attempt(m)
Attempt(m) ==
    /\ budget > 0
    /\ budget' = budget - 1
    /\ history' = Append(history, m)
    /\ IF ~ move_is_valid(cells, m)
       THEN /\ status' = "InvalidMove"
            /\ UNCHANGED <<cells, score>>
       ELSE LET r == make_move(cells, m)
            IN  \E g \in insert_random_cell(r.cells) :
                    /\ cells' = g
                    /\ score' = score + r.score
                    /\ status' = IF has_player_lost(g) THEN "Lost" ELSE "Ok"
    /\ UNCHANGED input

\* let (cells, score) = Grid::make_move(cells, m), the deltas summed up
Reduce(m) ==
    /\ budget > 0
    /\ budget' = budget - 1
    /\ history' = Append(history, m)
    /\ LET r == make_move(cells, m)
       IN  /\ cells' = r.cells
           /\ score' = score + r.score
    /\ UNCHANGED status
    /\ UNCHANGED input

\* grid.insert_random_cell()
Insert ==
    /\ budget > 0
    /\ budget' = budget - 1
    /\ cells' \in insert_random_cell(cells)
    /\ UNCHANGED <<score, status, history>>
    /\ UNCHANGED input

\* mutant: the cells replaced, the score kept
NewGame_keeps_score ==
    /\ cells' \in default
    /\ status' = "None"
    /\ history' = <<>>
    /\ budget' = 0
    /\ UNCHANGED score
    /\ UNCHANGED input

\* Model::update on Msg::NewGame: self.grid = Grid::default().  The new grid
\* has received no call; the game on it is the one Spec explores, so it is
\* not played on here.
NewGame ==
    /\ cells' \in default
    /\ score' = 0
    /\ status' = "None"
    /\ history' = <<>>
    /\ budget' = 0
    /\ UNCHANGED input

\* mutant: a call without insert_random_cell
Play_without_spawn(m) ==
    /\ IF ~ move_is_valid(cells, m)
       THEN /\ status' = "InvalidMove"
            /\ UNCHANGED <<cells, score>>
       ELSE LET r == make_move(cells, m)
            IN  /\ cells' = r.cells
                /\ score' = score + r.score
                /\ status' = IF has_player_lost(r.cells) THEN "Lost" ELSE "Ok"
    /\ UNCHANGED <<history, budget>>
    /\ UNCHANGED input

\* grid.attempt(m) as often as the player likes, the calls not recorded
Play(m) ==
    /\ IF ~ move_is_valid(cells, m)
       THEN /\ status' = "InvalidMove"
            /\ UNCHANGED <<cells, score>>
       ELSE LET r == make_move(cells, m)
            IN  \E g \in insert_random_cell(r.cells) :
                    /\ cells' = g
                    /\ score' = score + r.score
                    /\ status' = IF has_player_lost(g) THEN "Lost" ELSE "Ok"
    /\ UNCHANGED <<history, budget>>
    /\ UNCHANGED input

\* a call that is accepted
AcceptedPlay == \E m \in Moves : Play(m) /\ cells' # cells

\* self.grid.attempt(m): what one call does to the grid
attempt(m) ==
    /\ budget > 0
    /\ budget' = budget - 1
    /\ history' = Append(history, m)
    /\ IF ~ move_is_valid(cells, m)
       THEN /\ status' = "InvalidMove"
            /\ UNCHANGED <<cells, score>>
       ELSE LET r == make_move(cells, m)
            IN  \E g \in insert_random_cell(r.cells) :
                    /\ cells' = g
                    /\ score' = score + r.score
                    /\ status' = IF has_player_lost(g) THEN "Lost" ELSE "Ok"

\* Model::make_move
Model_make_move(m) == attempt(m)

\* Model::update on Msg::KeyDown(event)
KeyDown(key_code) ==
    /\ LET a == arrow(key_code)
       IN  IF a # None
           THEN Model_make_move(unwrap(a))
           ELSE UNCHANGED model_grid
    /\ msg' = Msg("KeyDown", key_code, <<>>)
    /\ UNCHANGED <<touch_start_x, touch_start_y>>

\* Model::update on Msg::TouchStart(event), touches its target_touches
TouchStart(touches) ==
    /\ IF Len(touches) > 0
       THEN /\ touch_start_x' = Some(touches[1].client_x)
            /\ touch_start_y' = Some(touches[1].client_y)
       ELSE UNCHANGED <<touch_start_x, touch_start_y>>
    /\ msg' = Msg("TouchStart", 0, touches)
    /\ UNCHANGED model_grid

\* Model::update on Msg::TouchMove(_)
TouchMove ==
    /\ msg' = Msg("TouchMove", 0, <<>>)
    /\ UNCHANGED <<model_grid, touch_start_x, touch_start_y>>

\* Model::update on Msg::TouchEnd(event), changed_touches its changed_touches
TouchEnd(changed_touches) ==
    /\ msg' = Msg("TouchEnd", 0, changed_touches)
    /\ IF is_none(touch_start_x) \/ is_none(touch_start_y)
       THEN UNCHANGED <<model_grid, touch_start_x, touch_start_y>>
       ELSE IF Len(changed_touches) = 0
       THEN UNCHANGED <<model_grid, touch_start_x, touch_start_y>>
       ELSE LET dx == changed_touches[1].client_x - unwrap(touch_start_x)
                dy == changed_touches[1].client_y - unwrap(touch_start_y)
            IN  IF abs(dx) < TOUCH_MOVE_THRESHOLD /\ abs(dy) < TOUCH_MOVE_THRESHOLD
                THEN UNCHANGED <<model_grid, touch_start_x, touch_start_y>>
                ELSE /\ attempt(get_move(dx, dy))
                     /\ touch_start_x' = None
                     /\ touch_start_y' = None

Next == \E m \in Moves : Attempt(m)

NextMove == \E m \in Moves : Reduce(m)

NextInsert == Insert

\* Model::update: a move (Model::make_move calls grid.attempt) or Msg::NewGame
NextGame ==
    \/ \E m \in Moves : Attempt(m)
    \/ NewGame

NextEnd == \E m \in Moves : Play(m)

\* Model::update on the keyboard and touch messages
NextInput ==
    \/ \E key_code \in KeyCodes : KeyDown(key_code)
    \/ \E touches \in TouchLists(StartPoints) : TouchStart(touches)
    \/ TouchMove
    \/ \E changed_touches \in TouchLists(EndPoints) : TouchEnd(changed_touches)

\* a game from Grid::new_random()
Spec == Init /\ [][Next]_vars

\* calls of attempt on a dense grid made with Grid::new
SpecNew == InitNew /\ [][Next]_vars

\* calls of attempt on the grid of tests::get_score_works
SpecScore == InitScore /\ [][Next]_vars

\* the reduction applied to enumerated boards
SpecMove == InitMove /\ [][NextMove]_vars

\* insert_random_cell called on its own
SpecInsert == InitInsert /\ [][NextInsert]_vars

\* moves and new-game requests on the grid of a Model
SpecGame == InitGame /\ [][NextGame]_vars

\* key presses and touch gestures on the grid of a Model
SpecInput == InitInput /\ [][NextInput]_vars

\* The player keeps making accepted moves while there is one: weak fairness
\* of AcceptedPlay.  An accepted call exists exactly when the grid is not
\* stuck, so ENABLED <<AcceptedPlay>>_vars is ~ has_player_lost(cells), and
\* WF_vars(AcceptedPlay) is written out with it.
KeepsPlaying ==
    <>[](~ has_player_lost(cells)) => []<><<AcceptedPlay>>_vars

\* the end of a game whose player keeps making accepted moves
SpecEnd == InitEnd /\ [][NextEnd]_vars /\ KeepsPlaying

(* ---------------------------- reference ------------------------------- *)

Positions == Idx \X Idx

\* the last direction passed to attempt or make_move
LastMove == history[Len(history)]

\* the k-th line of b along direction m, listed from the far end to the wall
\* the tiles travel to (the wall is at index 4 of the line)
LineToward(b, m, k) ==
    CASE m = "Right" -> <<b[k][1], b[k][2], b[k][3], b[k][4]>>
      [] m = "Left"  -> <<b[k][4], b[k][3], b[k][2], b[k][1]>>
      [] m = "Down"  -> <<b[1][k], b[2][k], b[3][k], b[4][k]>>
      [] m = "Up"    -> <<b[4][k], b[3][k], b[2][k], b[1][k]>>

NonEmpty(line) == SelectSeq(line, LAMBDA v : v # 0)

\* pair the tiles of s off from the right end: out are the tiles left,
\* gain the sum of the doubled values
RECURSIVE PairUp(_)
PairUp(s) ==
    IF Len(s) = 0 THEN [out |-> <<>>, gain |-> 0]
    ELSE IF Len(s) >= 2 /\ s[Len(s)] = s[Len(s) - 1]
    THEN LET rest == PairUp(SubSeq(s, 1, Len(s) - 2))
         IN  [out  |-> Append(rest.out, 2 * s[Len(s)]),
              gain |-> rest.gain + 2 * s[Len(s)]]
    ELSE LET rest == PairUp(SubSeq(s, 1, Len(s) - 1))
         IN  [out  |-> Append(rest.out, s[Len(s)]),
              gain |-> rest.gain]

\* the values v of the pairs PairUp merges in s, in the order it merges them
RECURSIVE MergedPairs(_)
MergedPairs(s) ==
    IF Len(s) = 0 THEN <<>>
    ELSE IF Len(s) >= 2 /\ s[Len(s)] = s[Len(s) - 1]
    THEN <<s[Len(s)]>> \o MergedPairs(SubSeq(s, 1, Len(s) - 2))
    ELSE MergedPairs(SubSeq(s, 1, Len(s) - 1))

\* s right-aligned in a line of four, zeros on the left
PadLeft(s) ==
    [j \in Idx |-> IF j <= 4 - Len(s) THEN 0 ELSE s[j - (4 - Len(s))]]

\* the reference reduction of one line toward its index 4
RefLine(line) ==
    LET paired == PairUp(NonEmpty(line))
    IN  [row |-> PadLeft(paired.out), gain |-> paired.gain]

\* the sum of the merged tiles a move of b in direction m creates
RefGain(b, m) ==
    RefLine(LineToward(b, m, 1)).gain + RefLine(LineToward(b, m, 2)).gain
    + RefLine(LineToward(b, m, 3)).gain + RefLine(LineToward(b, m, 4)).gain

Accepted(s) == s \in {"Ok", "Lost"}

(* ---------------------------- C1 ---------------------------------------- *)

\* C1: a call attempt(m) on a grid that make_move(cells, m) leaves equal to
\* itself returns InvalidMove and changes neither a cell nor the score.
C1_NoOpStep ==
    \A m \in Moves :
        (history' = Append(history, m) /\ make_move(cells, m).cells = cells)
            => /\ status' = "InvalidMove"
               /\ cells' = cells
               /\ score' = score

C1_InvalidMoveChangesNothing == [][C1_NoOpStep]_vars

\* a rejected call on a grid that already has a score
C1_Witness ==
    /\ status = "InvalidMove"
    /\ score > 0
    /\ make_move(cells, LastMove).cells = cells

(* ---------------------------- C2 ---------------------------------------- *)

\* the cells where two boards differ
Differing(b1, b2) == {p \in Positions : b1[p[1]][p[2]] # b2[p[1]][p[2]]}

\* C2: a call attempt(m) on a grid that make_move(cells, m) changes returns
\* Ok or Lost and leaves the reduced board with exactly one cell changed,
\* which was empty in the reduced board and now holds 2 or 4.
C2_SpawnStep ==
    \A m \in Moves :
        LET reduced == make_move(cells, m).cells
        IN  (history' = Append(history, m) /\ reduced # cells)
                => /\ Accepted(status')
                   /\ Cardinality(Differing(reduced, cells')) = 1
                   /\ \A p \in Differing(reduced, cells') :
                          /\ reduced[p[1]][p[2]] = 0
                          /\ cells'[p[1]][p[2]] \in {2, 4}

C2_AcceptedMoveSpawnsOneTile == [][C2_SpawnStep]_vars

\* an accepted call on a full grid: the tile went where a merge made room
C2_Witness ==
    /\ Len(history) = 1
    /\ Accepted(status)
    /\ is_board_full(cells)
    /\ score > 0

(* ---------------------------- C3 ---------------------------------------- *)

IsTile(v) == \E k \in 1..17 : v = Pow2(k)

\* C3: every non-empty cell of a grid made by new_random and played on holds
\* a power of two 2^k with k >= 1.
C3_CellsArePowersOfTwo ==
    \A p \in Positions : cells[p[1]][p[2]] = 0 \/ IsTile(cells[p[1]][p[2]])

\* a merged tile on the board
C3_Witness ==
    /\ Accepted(status)
    /\ \E p \in Positions : cells[p[1]][p[2]] = 8

(* ---------------------------- C4 ---------------------------------------- *)

C4_ScoreStep ==
    /\ score' >= score
    /\ status' = "InvalidMove" => score' = score
    /\ \A m \in Moves :
           (history' = Append(history, m) /\ Accepted(status'))
               => score' = score + RefGain(cells, m)

\* C4: the score starts at 0, never decreases, changes only on accepted
\* moves, each of which adds the sum of the merged tiles it creates; from the
\* row [2,2,2,2] alone two calls attempt(Right) leave the score 16.
C4_ScoreAddsMergedTiles ==
    /\ [](history = <<>> => score = 0)
    /\ [][C4_ScoreStep]_vars
    /\ [](history = <<"Right", "Right">> => score = 16)

\* tests::get_score_works after its two calls
C4_Witness ==
    /\ history = <<"Right", "Right">>
    /\ status = "Ok"
    /\ score = 16

(* ---------------------------- C5 ---------------------------------------- *)

\* C5: mov gives, row by row, the reference reduction (the non-empty values
\* paired off from the right end, each pair one tile of double value, the
\* result right-aligned), and its score delta is the sum of the doubled values.
C5_MovIsReferenceReduction ==
    LET moved == mov(cells)
    IN  /\ \A i \in Idx : moved.cells[i] = RefLine(cells[i]).row
        /\ moved.score = RefGain(cells, "Right")

\* tests::score_increase_should_be_16_plus_8 after its reduction
C5_Witness ==
    /\ history = <<"Right">>
    /\ score = 24
    /\ cells = Board(Row(0, 0, 0, 8), Row(0, 0, 2, 4), ZeroRow, Row(0, 0, 0, 16))

(* ---------------------------- C6 ---------------------------------------- *)

Count(line, v) == Cardinality({j \in Idx : line[j] = v})

Tiles(line) == Cardinality({j \in Idx : line[j] # 0})

Sum(line) == line[1] + line[2] + line[3] + line[4]

\* row i of b alone on the board
Alone(b, i) == Board(b[i], ZeroRow, ZeroRow, ZeroRow)

\* C6: a tile merges at most once per move.  Four equal tiles v become
\* [0,0,2v,2v] with delta 4v; every tile of a reduced row is a tile of the
\* row or the double of a value the row holds twice, no value is lost, and
\* of n tiles at least ceil(n/2) remain.
C6_OneMergePerTile ==
    LET moved == mov(cells).cells
    IN  \A i \in Idx :
            /\ (cells[i][1] # 0 /\ Count(cells[i], cells[i][1]) = 4)
                   => /\ moved[i] = <<0, 0, 2 * cells[i][1], 2 * cells[i][1]>>
                      /\ mov(Alone(cells, i)).score = 4 * cells[i][1]
            /\ \A j \in Idx :
                   moved[i][j] # 0
                       => \/ Count(cells[i], moved[i][j]) >= 1
                          \/ \E k \in Idx : /\ cells[i][k] # 0
                                            /\ 2 * cells[i][k] = moved[i][j]
                                            /\ Count(cells[i], cells[i][k]) >= 2
            /\ Sum(moved[i]) = Sum(cells[i])
            /\ 2 * Tiles(moved[i]) >= Tiles(cells[i])

\* tests::doesnt_double_combinate_when_all_are_the_same, without its lone 2
C6_Witness ==
    /\ history = <<"Right">>
    /\ score = 8
    /\ cells = Board(Row(0, 0, 4, 4), ZeroRow, ZeroRow, ZeroRow)

(* ---------------------------- C7 ---------------------------------------- *)

\* C7: of three equal tiles in a line the two nearest the wall of the move
\* merge: seen from the far end to the wall, [a,v,v,v] with a # v becomes
\* [0,a,v,2v] and [v,v,v,b] with b a tile other than v becomes [0,v,2v,b],
\* for Right, Left, Up and Down alike.
C7_RunOfThreeMergesAtTheWall ==
    \A m \in Moves : \A k \in Idx :
        LET line == LineToward(cells, m, k)
            out  == LineToward(make_move(cells, m).cells, m, k)
        IN  /\ (line[2] # 0 /\ line[3] = line[2] /\ line[4] = line[2]
                    /\ line[1] # line[2])
                   => out = <<0, line[1], line[2], 2 * line[2]>>
            /\ (line[1] # 0 /\ line[2] = line[1] /\ line[3] = line[1]
                    /\ line[4] # line[1] /\ line[4] # 0)
                   => out = <<0, line[1], 2 * line[1], line[4]>>

\* the row [4,4,4,2] moved Left: 2,4,4,4 seen toward the wall
C7_Witness ==
    /\ history = <<"Left">>
    /\ score = 8
    /\ cells = Board(Row(8, 4, 2, 0), ZeroRow, ZeroRow, ZeroRow)

(* ---------------------------- C8 ---------------------------------------- *)

\* every row of b mirrored
Mirror(b) ==
    Board(<<b[1][4], b[1][3], b[1][2], b[1][1]>>,
          <<b[2][4], b[2][3], b[2][2], b[2][1]>>,
          <<b[3][4], b[3][3], b[3][2], b[3][1]>>,
          <<b[4][4], b[4][3], b[4][2], b[4][1]>>)

\* the rightward reduction carried over to direction m by the symmetry that
\* turns the wall of m into column 3
Conjugated(b, m) ==
    CASE m = "Right" -> mov(b)
      [] m = "Left"  -> LET r == mov(Mirror(b))
                        IN  [cells |-> Mirror(r.cells), score |-> r.score]
      [] m = "Down"  -> LET r == mov(AsColumns(b))
                        IN  [cells |-> AsColumns(r.cells), score |-> r.score]
      [] m = "Up"    -> LET r == mov(Mirror(AsColumns(b)))
                        IN  [cells |-> AsColumns(Mirror(r.cells)), score |-> r.score]

\* C8: make_move(B, D) is the rightward reduction conjugated by the symmetry
\* of D (Right to column 3, Left to column 0, Up to row 0, Down to row 3),
\* board and score delta alike, and so line by line the reference reduction
\* toward the wall of D.
C8_MoveIsConjugatedReduction ==
    \A m \in Moves :
        LET made == make_move(cells, m)
        IN  /\ made = Conjugated(cells, m)
            /\ made.score = RefGain(cells, m)
            /\ \A k \in Idx :
                   LineToward(made.cells, m, k) = RefLine(LineToward(cells, m, k)).row

\* tests::move_up_works: three 2s of column 0 moved Up
C8_Witness ==
    /\ history = <<"Up">>
    /\ score = 4
    /\ cells = Board(Row(4, 0, 0, 0), Row(2, 0, 0, 0), ZeroRow, ZeroRow)

(* ---------------------------- C9 ---------------------------------------- *)

\* C9: rotate is the clockwise quarter turn, result[i][j] = input[3-j][i]
\* (here, indexed from 1, input[5-j][i]); four turns, and two turns twice,
\* and n turns followed by 4 - n turns, give the board back.
C9_RotateIsQuarterTurn ==
    /\ \A i \in Idx : \A j \in Idx : rotate(cells)[i][j] = cells[5 - j][i]
    /\ rotate_times(cells, 4) = cells
    /\ rotate_times(rotate_times(cells, 2), 2) = cells
    /\ \A n \in 0..3 : rotate_times(rotate_times(cells, n), 4 - n) = cells

\* a board that no smaller turn maps to itself
C9_Witness ==
    /\ cells = Board(Row(2, 4, 0, 0), Row(2, 0, 0, 0), ZeroRow, Row(4, 2, 0, 0))
    /\ rotate(cells) # cells
    /\ rotate_times(cells, 2) # cells
    /\ rotate_times(cells, 3) # cells
    /\ rotate_times(cells, 4) = cells

(* ---------------------------- C10 --------------------------------------- *)

NoReductionChanges(b) == \A m \in Moves : make_move(b, m).cells = b

NoEqualNeighbours(b) ==
    /\ \A i \in Idx : \A j \in 1..3 : b[i][j] # b[i][j + 1]
    /\ \A i \in 1..3 : \A j \in Idx : b[i][j] # b[i + 1][j]

HasEmptyCell(b) == \E p \in Positions : b[p[1]][p[2]] = 0

\* C10 as stated: for every board has_player_lost is true exactly when no
\* reduction changes the board, which is exactly when the board has no empty
\* cell and no two equal neighbours.
C10_AsStated ==
    /\ has_player_lost(cells) <=> NoReductionChanges(cells)
    /\ NoReductionChanges(cells)
           <=> (~ HasEmptyCell(cells) /\ NoEqualNeighbours(cells))

\* C10 amended: the same for every board that holds at least one tile (on
\* the board of sixteen empty cells no reduction changes anything, so
\* has_player_lost is true); a board with an empty cell and a tile is not
\* stuck, the checkerboard is.
C10_StuckIffFullWithoutEqualNeighbours ==
    LET lost == has_player_lost(cells)
        unchanged == NoReductionChanges(cells)
    IN  /\ lost <=> unchanged
        /\ cells # EmptyCells
               => (unchanged
                       <=> (~ HasEmptyCell(cells) /\ NoEqualNeighbours(cells)))
        /\ (HasEmptyCell(cells) /\ cells # EmptyCells) => ~ lost
        /\ cells = Checkerboard => lost

\* the checkerboard, reduced once without effect
C10_Witness ==
    /\ cells = Checkerboard
    /\ Len(history) = 1
    /\ has_player_lost(cells)

(* ---------------------------- C11 --------------------------------------- *)

C11_LostStep ==
    \A m \in Moves :
        (history' = Append(history, m) /\ Accepted(status'))
            => /\ status' = (IF has_player_lost(cells') THEN "Lost" ELSE "Ok")
               /\ ~ has_player_lost(make_move(cells, m).cells)

\* C11: an accepted call of attempt returns Lost exactly when the grid it
\* leaves, reduced and with the new tile in place, is stuck, and Ok otherwise;
\* the reduced board before the new tile is never stuck, so the answer is the
\* one of the check made after the spawn.
C11_LostIffStuckAfterSpawn == [][C11_LostStep]_vars

\* a call that merged, spawned into the freed cell and was told Lost
C11_Witness ==
    /\ Len(history) = 1
    /\ status = "Lost"
    /\ score > 0
    /\ is_board_full(cells)
    /\ has_player_lost(cells)

(* ---------------------------- C12 --------------------------------------- *)

\* the cells of b that hold a tile
TilePositions(b) == {p \in Positions : b[p[1]][p[2]] # 0}

\* C12: a grid as Grid::new_random() and Grid::default() make it has 14 empty
\* cells and 2 tiles in two different cells, each tile a 2 or a 4, and the
\* score 0.
C12_NewGridHasTwoTiles ==
    /\ default = new_random
    /\ history = <<>>
           => /\ cells \in default
              /\ Len(get_empty_cells(cells)) = 14
              /\ Cardinality(TilePositions(cells)) = 2
              /\ \A p \in TilePositions(cells) : cells[p[1]][p[2]] \in {2, 4}
              /\ score = 0

\* a fresh grid with a 2 and a 4
C12_Witness ==
    /\ history = <<>>
    /\ status = "None"
    /\ \E p \in Positions : cells[p[1]][p[2]] = 2
    /\ \E p \in Positions : cells[p[1]][p[2]] = 4

(* ---------------------------- C13 --------------------------------------- *)

C13_InsertStep ==
    budget' = budget - 1
        => /\ score' = score
           /\ IF is_board_full(cells)
              THEN cells' = cells
              ELSE /\ Cardinality(Differing(cells, cells')) = 1
                   /\ \A p \in Differing(cells, cells') :
                          /\ cells[p[1]][p[2]] = 0
                          /\ cells'[p[1]][p[2]] \in {2, 4}

\* every empty cell of b filled with 2 and with 4 is an outcome on b
C13_EveryOutcome(b) ==
    \A p \in Positions : \A v \in {2, 4} :
        b[p[1]][p[2]] = 0
            => [b EXCEPT ![p[1]][p[2]] = v] \in insert_random_cell(b)

\* C13: insert_random_cell leaves a full board as it is; on any other board
\* it changes exactly one cell, an empty one, to 2 or 4, and nothing else,
\* the score included; each empty cell and each of 2 and 4 can be the outcome.
C13_InsertFillsOneEmptyCell ==
    /\ [][C13_InsertStep]_vars
    /\ [](C13_EveryOutcome(cells))

\* tests::insert_random_cell_works with a 4 spawned, then a second call
\* on the board now full
C13_Witness ==
    /\ cells = Board(Row(2, 2, 4, 2), Row(2, 4, 2, 2), Row(4, 2, 2, 2), Row(2, 2, 2, 2))
    /\ budget = MaxNewMoves - 2

(* ---------------------------- C14 --------------------------------------- *)

BoardSum(b) == Sum(b[1]) + Sum(b[2]) + Sum(b[3]) + Sum(b[4])

\* the value of the tile that after holds where reduced had an empty cell
SpawnedValue(reduced, after) ==
    LET p == CHOOSE q \in Differing(reduced, after) : TRUE
    IN  after[p[1]][p[2]]

C14_AsStatedStep ==
    \A m \in Moves :
        (history' = Append(history, m) /\ Accepted(status'))
            => LET made == make_move(cells, m).cells
               IN  BoardSum(cells') = BoardSum(cells) + (score' - score)
                                      + SpawnedValue(made, cells')

\* C14 as stated: on every accepted call the sum of the cells afterwards is
\* the sum before plus the score the move added plus the spawned tile.
C14_AsStated == [][C14_AsStatedStep]_vars

C14_SumStep ==
    \A m \in Moves :
        (history' = Append(history, m) /\ Accepted(status'))
            => LET made == make_move(cells, m).cells
               IN  /\ BoardSum(made) = BoardSum(cells)
                   /\ BoardSum(cells') = BoardSum(cells) + SpawnedValue(made, cells')
                   /\ score' - score = RefGain(cells, m)

\* C14 amended: on every accepted call the sum of the cells afterwards is the
\* sum before plus the spawned tile; a merge puts 2v where two tiles v stood,
\* so the score the move adds (the sum of the merged tiles) is no part of it.
C14_SumGrowsBySpawnedTile == [][C14_SumStep]_vars

\* two tiles 2 merged into a 4, a new tile spawned, the game going on
C14_Witness ==
    /\ Len(history) = 1
    /\ status = "Ok"
    /\ score = 4
    /\ \E p \in Positions : cells[p[1]][p[2]] = 0

(* ---------------------------- C15 --------------------------------------- *)

\* the tiles of b, row after row
TilesOf(b) == NonEmpty(b[1] \o b[2] \o b[3] \o b[4])

\* how often v occurs in the sequence s
Occurs(s, v) == Len(SelectSeq(s, LAMBDA w : w = v))

\* the values of s
Range(s) == {s[k] : k \in 1..Len(s)}

\* the values v of the pairs a move of b in direction m merges
MergedBy(b, m) ==
    MergedPairs(NonEmpty(LineToward(b, m, 1)))
        \o MergedPairs(NonEmpty(LineToward(b, m, 2)))
        \o MergedPairs(NonEmpty(LineToward(b, m, 3)))
        \o MergedPairs(NonEmpty(LineToward(b, m, 4)))

\* how many pairs a move of b in direction m merges
Merges(b, m) == Len(MergedBy(b, m))

C15_Reduction ==
    LET before == TilesOf(cells)
    IN  \A m \in Moves :
            LET made   == make_move(cells, m).cells
                after  == TilesOf(made)
                merged == MergedBy(cells, m)
            IN  /\ \A v \in Range(before) \cup Range(after) :
                       Occurs(after, v) = Occurs(before, v) - 2 * Occurs(merged, v)
                                          + Occurs(merged, v \div 2)
                /\ BoardSum(made) = BoardSum(cells)
                /\ Len(after) = Len(before) - Len(merged)

C15_SpawnStep ==
    \A m \in Moves :
        (history' = Append(history, m) /\ Accepted(status'))
            => LET made  == TilesOf(make_move(cells, m).cells)
                   after == TilesOf(cells')
                   t     == BoardSum(cells') - BoardSum(cells)
               IN  /\ t \in {2, 4}
                   /\ Len(after) = Len(made) + 1
                   /\ \A v \in Range(after) :
                          Occurs(after, v)
                              = Occurs(made, v) + (IF v = t THEN 1 ELSE 0)

\* C15: make_move keeps the multiset of tile values except that each merged
\* pair {v, v} becomes one tile 2v, so it keeps the sum of the cells and
\* lowers the number of tiles by the number of merges; an accepted attempt
\* adds to the reduced multiset exactly one tile, a 2 or a 4.
C15_NoValueFabrication ==
    /\ [](C15_Reduction)
    /\ [][C15_SpawnStep]_vars

\* tests::board_is_full_works reduced with six merges, one tile spawned
C15_Witness ==
    /\ Len(history) = 1
    /\ Accepted(status)
    /\ score = 24
    /\ Cardinality(TilePositions(cells)) = 11

(* ---------------------------- C16 --------------------------------------- *)

C16_NewGameStep ==
    history' = <<>>
        => /\ cells' \in default
           /\ score' = 0
           /\ Cardinality(TilePositions(cells')) = 2
           /\ \A p \in TilePositions(cells') : cells'[p[1]][p[2]] \in {2, 4}

\* C16: whatever the grid and the score when Msg::NewGame arrives, with the
\* game going on or lost, the grid afterwards is a fresh Grid::default(): the
\* score is 0 and the board has two tiles, each a 2 or a 4.
C16_NewGameReplacesTheGrid == [][C16_NewGameStep]_vars

\* a fresh grid, made by NewGame
C16_Witness ==
    /\ history = <<>>
    /\ budget = 0
    /\ score = 0
    /\ Cardinality(TilePositions(cells)) = 2

(* ---------------------------- C17 --------------------------------------- *)

\* C17: mov_all_cells_to_the_side gives, row by row, the tiles of the row in
\* their order from left to right, packed against column 3 with the zeros at
\* the low end: no value changed, lost or doubled; applied to its own result
\* it changes nothing.
C17_SlidePacksInOrder ==
    LET slid == mov_all_cells_to_the_side(cells)
    IN  /\ \A i \in Idx :
               /\ slid[i] = PadLeft(NonEmpty(cells[i]))
               /\ NonEmpty(slid[i]) = NonEmpty(cells[i])
               /\ \A j \in 1..3 : slid[i][j] # 0 => slid[i][j + 1] # 0
        /\ mov_all_cells_to_the_side(slid) = slid

\* the third row of tests::move_all_to_the_side_works2: a gap between tiles
C17_Witness ==
    /\ cells = Board(ZeroRow, ZeroRow, Row(4, 0, 2, 2), ZeroRow)
    /\ mov_all_cells_to_the_side(cells)
           = Board(ZeroRow, ZeroRow, Row(0, 4, 2, 2), ZeroRow)

(* ---------------------------- C18 --------------------------------------- *)

\* a tile of the line has an empty cell ahead of it on its way to the wall
GapAhead(line) ==
    \E a \in 1..3 : \E b \in (a + 1)..4 : line[a] # 0 /\ line[b] = 0

\* two tiles of the line are equal and neighbours once the empties are left out
EqualNeighbours(line) ==
    LET t == NonEmpty(line)
    IN  \E j \in 1..(Len(t) - 1) : t[j] = t[j + 1]

\* C18: move_is_valid(D) is true exactly when some line along D has a tile
\* with an empty cell ahead of it or two equal tiles that are neighbours once
\* the empties are ignored; so a board compacted toward D without equal
\* neighbours is rejected, and a move that merges is never rejected.
C18_ValidIffGapOrEqualNeighbours ==
    \A m \in Moves :
        LET lines == {LineToward(cells, m, k) : k \in Idx}
            made == make_move(cells, m)
        IN  /\ move_is_valid(cells, m)
                   <=> \E line \in lines : GapAhead(line) \/ EqualNeighbours(line)
            /\ (\A line \in lines : ~ GapAhead(line) /\ ~ EqualNeighbours(line))
                   => made.cells = cells
            /\ made.score > 0 => made.cells # cells

\* the grid of tests::move_is_valid_works_when_invalid and _when_valid
C18_Witness ==
    /\ cells = Board(Row(2, 4, 0, 0), Row(2, 0, 0, 0), ZeroRow, Row(4, 2, 0, 0))
    /\ ~ move_is_valid(cells, "Left")
    /\ move_is_valid(cells, "Right")
    /\ move_is_valid(cells, "Up")

(* ---------------------------- C19 --------------------------------------- *)

C19_StuckStep ==
    \A m \in Moves :
        (history' = Append(history, m) /\ has_player_lost(cells))
            => /\ status' = "InvalidMove"
               /\ cells' = cells
               /\ score' = score

\* C19: a grid whose last call answered Lost is stuck, and on a stuck grid
\* every call of attempt, whatever the direction, answers InvalidMove and
\* leaves the cells and the score as they are; so the grid stays stuck and
\* Lost is answered at most once.
C19_LossIsAbsorbing ==
    /\ [](status = "Lost" => has_player_lost(cells))
    /\ [][C19_StuckStep]_vars
    /\ [][status = "Lost" => status' # "Lost"]_vars

\* a call that merged and lost, then a call on the stuck grid
C19_Witness ==
    /\ Len(history) = 2
    /\ status = "InvalidMove"
    /\ score > 0
    /\ has_player_lost(cells)

(* ---------------------------- C20 --------------------------------------- *)

C20_ReducedHasRoom ==
    \A m \in Moves :
        LET made == make_move(cells, m).cells
        IN  made # cells => (HasEmptyCell(made) /\ ~ is_board_full(made))

C20_CountStep ==
    \A m \in Moves :
        (history' = Append(history, m) /\ Accepted(status'))
            => Cardinality(TilePositions(cells'))
                   = Cardinality(TilePositions(cells)) - Merges(cells, m) + 1

\* C20: a reduction that changes the board leaves at least one empty cell,
\* so the insert_random_cell of an accepted attempt always places a tile:
\* the number of tiles afterwards is the number before, less the number of
\* merges, plus one.
C20_SpawnIsNeverANoOp ==
    /\ [](C20_ReducedHasRoom)
    /\ [][C20_CountStep]_vars

\* a full grid with one pair: the merge frees a cell, the spawn fills it
C20_Witness ==
    /\ Len(history) = 1
    /\ status = "Ok"
    /\ score = 8
    /\ Cardinality(TilePositions(cells)) = 16

(* ---------------------------- C21 --------------------------------------- *)

C21_SumStep ==
    cells' # cells => BoardSum(cells') - BoardSum(cells) \in {2, 4}

KeyMove(key_code) ==
    CASE key_code = 37 -> "Left"
      [] key_code = 38 -> "Up"
      [] key_code = 39 -> "Right"
      [] key_code = 40 -> "Down"

Swipe(dx, dy) ==
    CASE dx * dx > dy * dy /\ dx > 0 -> "Right"
      [] dx * dx > dy * dy /\ dx < 0 -> "Left"
      [] dx * dx <= dy * dy /\ dy > 0 -> "Down"
      [] dx * dx <= dy * dy /\ dy < 0 -> "Up"

\* the step made exactly one call of attempt, with m; it made none
OneAttempt(m) ==
    /\ history' = Append(history, m)
    /\ budget' = budget - 1

NoAttempt == UNCHANGED <<cells, score, status, history, budget>>

StartRecorded == touch_start_x # None /\ touch_start_y # None

StartCleared == touch_start_x' = None /\ touch_start_y' = None

\* the displacements of a TouchEnd that carries a touch, from the recorded
\* start
Dx(e) == e.touches[1].client_x - touch_start_x[1]

Dy(e) == e.touches[1].client_y - touch_start_y[1]

BelowThreshold(e) == -30 < Dx(e) /\ Dx(e) < 30 /\ -30 < Dy(e) /\ Dy(e) < 30

C22_KeyStep ==
    LET e == msg'
    IN  e.kind = "KeyDown" =>
            IF e.key_code \in 37..40
            THEN OneAttempt(KeyMove(e.key_code))
            ELSE NoAttempt

\* the claim as stated: a TouchEnd makes no attempt only when no start is
\* recorded or both displacements are below 30, and one attempt otherwise
C22_AsStatedStep ==
    LET e == msg'
    IN  /\ C22_KeyStep
        /\ e.kind = "TouchEnd" =>
               IF ~ StartRecorded \/ (Len(e.touches) > 0 /\ BelowThreshold(e))
               THEN NoAttempt
               ELSE /\ \E m \in Moves : OneAttempt(m)
                    /\ Len(e.touches) > 0 => OneAttempt(Swipe(Dx(e), Dy(e)))
                    /\ StartCleared

C22_AsStated == [][C22_AsStatedStep]_vars

C22_TouchStep ==
    LET e == msg'
    IN  e.kind = "TouchEnd" =>
            IF ~ StartRecorded \/ Len(e.touches) = 0 \/ BelowThreshold(e)
            THEN /\ NoAttempt
                 /\ UNCHANGED <<touch_start_x, touch_start_y>>
            ELSE /\ OneAttempt(Swipe(Dx(e), Dy(e)))
                 /\ StartCleared

\* C22: a KeyDown with key code 37, 38, 39 or 40 makes exactly one attempt,
\* with Left, Up, Right or Down, and any other key code leaves the grid as it
\* is; a TouchEnd makes no attempt and keeps the recorded touch start when no
\* start is recorded, when the event carries no changed touch or when both
\* |dx| and |dy| are below 30, and otherwise makes exactly one attempt in the
\* direction of the larger displacement (ties go to the vertical axis) and
\* clears the recorded touch start.
C22_InputMapsToOneAttempt == [][C22_KeyStep /\ C22_TouchStep]_vars

\* a swipe that ended at the corner of the screen was taken as Up, its touch
\* start cleared
C22_Witness ==
    /\ msg = Msg("TouchEnd", 0, <<Touch(0, 0)>>)
    /\ touch_start_x = None
    /\ touch_start_y = None
    /\ history = <<"Up">>
    /\ status = "Ok"

(* ------------------------------ C23 ------------------------------------ *)

\* p comes before q in the order of the two nested loops
RowMajorBefore(p, q) == p[1] < q[1] \/ (p[1] = q[1] /\ p[2] < q[2])

C23_ZeroCellsInOrder(b) ==
    LET e == get_empty_cells(b)
    IN  /\ \A k \in 1..Len(e) : e[k] \in Positions /\ b[e[k][1]][e[k][2]] = 0
        /\ \A p \in Positions : b[p[1]][p[2]] = 0 => \E k \in 1..Len(e) : e[k] = p
        /\ \A k \in 1..Len(e) : \A l \in 1..Len(e) :
               k < l => RowMajorBefore(e[k], e[l])

\* C23: is_board_full holds exactly when get_empty_cells returns an empty
\* list, get_empty_cells returns exactly the coordinates of the zero cells in
\* row-major order, and insert_random_cell never unwraps the choice from an
\* empty list, neither called on its own nor on the board a move of attempt
\* has reduced.
C23_InsertNeverPanics ==
    /\ is_board_full(cells) <=> get_empty_cells(cells) = <<>>
    /\ C23_ZeroCellsInOrder(cells)
    /\ ~ insert_random_cell_panics(cells)
    /\ \A m \in Moves : ~ insert_random_cell_panics(make_move(cells, m).cells)

\* tests::get_empty_cells_work after insert_random_cell has put a 4 in the
\* first of its two empty cells: the second is what get_empty_cells returns
C23_Witness ==
    /\ cells = Board(Row(2, 2, 4, 2), Row(2, 4, 2, 2), Row(4, 2, 2, 0), Row(2, 2, 2, 2))
    /\ budget = MaxNewMoves - 1
    /\ get_empty_cells(cells) = <<<<3, 4>>>>
    /\ ~ is_board_full(cells)

====
